---- MODULE Spec2Model ----
(***************************************************************************)
(* Error handling of bmputil: the rusb transport error (ErrorKind, Error,  *)
(* its Display, from_libusb, try_unsafe) and the application error enum    *)
(* BmputilError with the log_and_return macro.                             *)
(***************************************************************************)
EXTENDS Integers, Sequences, FiniteSets, TLC

(* ---------------------------------------------------------------- bounds *)

\* from_libusb is exercised on every code in -CodeSpan..CodeSpan, on the two
\* ends of i32 and on the far-away codes -99 and -9999.
CodeSpan == 16

\* Number of native calls wrapped in try_unsafe in the modelled function body.
MaxCalls == 3

\* Times one error value is formatted in a row.
MaxFmtCalls == 2

\* Deepest call chain an application error propagates through.
MaxFrames == 3

(* ------------------------------------------------------- libusb constants *)

LIBUSB_ERROR_IO == -1
LIBUSB_ERROR_INVALID_PARAM == -2
LIBUSB_ERROR_ACCESS == -3
LIBUSB_ERROR_NO_DEVICE == -4
LIBUSB_ERROR_NOT_FOUND == -5
LIBUSB_ERROR_BUSY == -6
LIBUSB_ERROR_TIMEOUT == -7
LIBUSB_ERROR_OVERFLOW == -8
LIBUSB_ERROR_PIPE == -9
LIBUSB_ERROR_INTERRUPTED == -10
LIBUSB_ERROR_NO_MEM == -11
LIBUSB_ERROR_NOT_SUPPORTED == -12
LIBUSB_ERROR_OTHER == -99

I32_MIN == -2147483647 - 1
I32_MAX == 2147483647

\* The i32 values from_libusb and try_unsafe are fed.
RawCodes == (-CodeSpan .. CodeSpan) \cup {I32_MIN, I32_MAX, LIBUSB_ERROR_OTHER, -9999}

(* ------------------------------------------------------------ rusb::Error *)

None == [none |-> TRUE]

ErrorKind ==
    {"Io", "InvalidParam", "Access", "NoDevice", "NotFound", "Busy", "Timeout",
     "Overflow", "Pipe", "Interrupted", "NoMem", "NotSupported", "BadDescriptor",
     "Other"}

\* Backtrace::capture() yields whatever the call stack is at the call site.
Backtraces == {"0: rusb::error::from_libusb", "1: bmputil::usb::open"}

Error == [kind : ErrorKind, backtrace : Backtraces]

new(kind, backtrace) == [kind |-> kind, backtrace |-> backtrace]

error_from(kind, backtrace) == new(kind, backtrace)

\* The match of from_libusb: one arm per libusb constant, `LIBUSB_ERROR_OTHER | _`
\* for the rest.
KindOfCode(err) ==
    CASE err = LIBUSB_ERROR_IO -> "Io"
      [] err = LIBUSB_ERROR_INVALID_PARAM -> "InvalidParam"
      [] err = LIBUSB_ERROR_ACCESS -> "Access"
      [] err = LIBUSB_ERROR_NO_DEVICE -> "NoDevice"
      [] err = LIBUSB_ERROR_NOT_FOUND -> "NotFound"
      [] err = LIBUSB_ERROR_BUSY -> "Busy"
      [] err = LIBUSB_ERROR_TIMEOUT -> "Timeout"
      [] err = LIBUSB_ERROR_OVERFLOW -> "Overflow"
      [] err = LIBUSB_ERROR_PIPE -> "Pipe"
      [] err = LIBUSB_ERROR_INTERRUPTED -> "Interrupted"
      [] err = LIBUSB_ERROR_NO_MEM -> "NoMem"
      [] err = LIBUSB_ERROR_NOT_SUPPORTED -> "NotSupported"
      [] OTHER -> "Other"

\* A match whose arms for ACCESS and NOT_FOUND are swapped.
MutFromLibusbSwapped(err, backtrace) ==
    error_from(
        IF err = LIBUSB_ERROR_ACCESS THEN "NotFound"
        ELSE IF err = LIBUSB_ERROR_NOT_FOUND THEN "Access"
        ELSE KindOfCode(err),
        backtrace)

\* A match that takes a positive status for a descriptor length gone wrong.
MutFromLibusbBadDescriptor(err, backtrace) ==
    error_from(IF err > 0 THEN "BadDescriptor" ELSE KindOfCode(err), backtrace)

\* from_libusb; the backtrace captured at the call is an input.
from_libusb(err, backtrace) == error_from(KindOfCode(err), backtrace)

\* ErrorKind::error, which From<ErrorKind> for Error calls.
error(kind, backtrace) == new(kind, backtrace)

\* The match of Display::fmt.
KindText(kind) ==
    CASE kind = "Io" -> "Input/Output Error"
      [] kind = "InvalidParam" -> "Invalid parameter"
      [] kind = "Access" -> "Access denied (insufficient permissions)"
      [] kind = "NoDevice" -> "No such device (it may have been disconnected)"
      [] kind = "NotFound" -> "Entity not found"
      [] kind = "Busy" -> "Resource busy"
      [] kind = "Timeout" -> "Operation timed out"
      [] kind = "Overflow" -> "Overflow"
      [] kind = "Pipe" -> "Pipe error"
      [] kind = "Interrupted" -> "System call interrupted (perhaps due to signal)"
      [] kind = "NoMem" -> "Insufficient memory"
      [] kind = "NotSupported" -> "Operation not supported or unimplemented on this platform"
      [] kind = "BadDescriptor" -> "Malformed descriptor"
      [] kind = "Other" -> "Other error"

\* A Display that also prints the captured backtrace.
MutDisplayWithBacktrace(e) == KindText(e.kind) \o "\n" \o e.backtrace

\* A Display that prints the name of the kind, as Debug does.
MutDisplayKindName(e) == e.kind

\* impl fmt::Display for Error: the text handed to write_str.
Display(e) == KindText(e.kind)

(* ----------------------------------------------------------- BmputilError *)

\* Option<T>
Some(x) == [some |-> x]

\* The errors of other crates that BmputilError takes as a source: opaque values
\* with a display text of their own.
IoErrors ==
    {[type |-> "std::io::Error", text |-> "No such file or directory (os error 2)"],
     [type |-> "std::io::Error", text |-> "Permission denied (os error 13)"]}

DfuErrors ==
    {[type |-> "dfu_libusb::Error", text |-> "The device has no DFU descriptor"],
     [type |-> "dfu_libusb::Error", text |-> "Could not parse memory layout"]}

AnyhowErrors ==
    {[type |-> "anyhow::Error", text |-> "descriptor string is not valid UTF-8"],
     [type |-> "anyhow::Error", text |-> "no string descriptor languages"]}

Operations == {"send a control transfer", "claim the interface"}
Contexts == {"read firmware version", "detach the device"}
Filenames == {"blackmagic.bin", "fw/native.elf"}
InvalidThings == {"no languages", "DFU interface has no name"}

\* Whether text t occurs in text s.
Contains(s, t) == \E i \in 1 .. (Len(s) - Len(t) + 1) : SubSeq(s, i, i + Len(t) - 1) = t

\* The display text of whatever error a source field holds.
SourceDisplay(src) == IF "kind" \in DOMAIN src THEN Display(src) ELSE src.text

\* A conversion that rebuilds the error and so captures the backtrace anew.
MutFromRusbRecaptured(e) ==
    [case |-> "LibusbError", v0 |-> new(e.kind, "1: bmputil::usb::open")]

\* From<rusb::Error> for BmputilError, derived from #[from] on LibusbError.
from_rusb(e) == [case |-> "LibusbError", v0 |-> e]

\* From<dfu_libusb::Error> for BmputilError, derived from #[from] on DfuLibusbError.
from_dfu(e) == [case |-> "DfuLibusbError", v0 |-> e]

\* A source() that knows the #[source] fields but not the #[from] ones.
MutSourceWithoutFrom(e) ==
    CASE e.case \in {"FirmwareFileIOError", "PermissionsError",
                     "DeviceDisconnectDuringOperationError"} -> Some(e.source)
      [] e.case \in {"DeviceReconfigureError", "DeviceRebootError",
                     "DeviceSeemsInvalidError"} -> e.source
      [] OTHER -> None

\* std::error::Error::source for BmputilError, derived from the #[source] and
\* #[from] attributes: Some(the field), the Option field as it is, or None.
source(e) ==
    CASE e.case \in {"FirmwareFileIOError", "PermissionsError",
                     "DeviceDisconnectDuringOperationError"} -> Some(e.source)
      [] e.case \in {"DeviceReconfigureError", "DeviceRebootError",
                     "DeviceSeemsInvalidError"} -> e.source
      [] e.case \in {"LibusbError", "DfuLibusbError"} -> Some(e.v0)
      [] e.case \in {"TooManyDevicesError", "DeviceNotFoundError"} -> None

\* The #[error("...")] attribute of each case, its {fields} filled in.
ErrorMessage(e) ==
    CASE e.case = "FirmwareFileIOError" -> "Failed to read firmware file " \o e.filename
      [] e.case = "TooManyDevicesError" -> "More than one Blackmagic Probe device was found"
      [] e.case = "DeviceNotFoundError" ->
            "No connected Blackmagic Probe device was found! Check connection?"
      [] e.case = "PermissionsError" ->
            "Access denied when attempting to " \o e.operation \o " to " \o e.context
      [] e.case = "DeviceDisconnectDuringOperationError" ->
            "Blackmagic Probe device found disconnected when attempting to "
                \o e.operation \o " to " \o e.context
      [] e.case = "DeviceReconfigureError" ->
            "Blackmagic Probe device did not re-enumerate after requesting to switch to DFU mode"
      [] e.case = "DeviceRebootError" ->
            "Blackmagic Probe device did not re-enumerate after flashing firmware; firmware may be invalid?"
      [] e.case = "DeviceSeemsInvalidError" ->
            "Blackmagic Probe device returned bad data (" \o e.invalid_thing
                \o ") during configuration."
                \o "This generally shouldn't be possible. Maybe cable is bad, or OS is messing with things?"
      [] e.case = "LibusbError" ->
            "Other/unhandled libusb error (please report this so we can add better handling!)"
      [] e.case = "DfuLibusbError" ->
            "Other/unhandled dfu_libusb error (please report this so we can add better error handling!"

\* A display that appends the cause, as if the messages ended in ": {source}".
MutAppDisplayWithSource(e) ==
    IF source(e) = None
    THEN ErrorMessage(e)
    ELSE ErrorMessage(e) \o ": " \o SourceDisplay(source(e).some)

\* Display for BmputilError, as #[derive(Error)] writes it from the attributes.
AppDisplay(e) == ErrorMessage(e)

(* ------------------------------------------------------------------ state *)

VARIABLES
    raw,      \* Option: the status code last given to from_libusb
    usbErr,   \* Option: the rusb::Error in hand
    appErr,   \* Option: the BmputilError in hand
    shown,    \* the texts written by the fmt calls on the error in hand
    cause,    \* Option: what the last source() call on appErr returned
    ncalls,   \* number of try_unsafe!-wrapped calls in the function body
    calls,    \* statuses returned by the native calls run so far
    result,   \* Option: the Result the function of try_unsafe! calls returned
    frames,   \* the call chain, outermost first: how each frame hands an error on
    failure,  \* Option: the BmputilError the innermost frame comes upon
    level,    \* the frame now running; 0 once the outermost has returned
    pc,       \* where the running frame is: "body", "bound", "logged"
    err,      \* Option: the `err` binding of log_and_return! in the running frame
    evals,    \* per frame, how often the macro's $err expression was evaluated
    log,      \* the records log::error! emitted
    ret,      \* Option: the Result last returned to the caller
    ranRest   \* frames whose body ran to its end

classifierVars == <<raw, usbErr, appErr, shown, cause>>
tryVars == <<ncalls, calls, result>>
logVars == <<frames, failure, level, pc, err, evals, log, ret, ranRest>>
vars == <<raw, usbErr, appErr, shown, cause, ncalls, calls, result,
          frames, failure, level, pc, err, evals, log, ret, ranRest>>

Ok == [ok |-> TRUE]
Err(e) == [err |-> e]
IsErr(r) == r # None /\ "err" \in DOMAIN r.some

ClassifierIdle ==
    /\ raw = None
    /\ usbErr = None
    /\ appErr = None
    /\ shown = <<>>
    /\ cause = None

TryIdle ==
    /\ ncalls = 0
    /\ calls = <<>>
    /\ result = None

LogIdle ==
    /\ frames = <<>>
    /\ failure = None
    /\ level = 0
    /\ pc = "body"
    /\ err = None
    /\ evals = <<>>
    /\ log = <<>>
    /\ ret = None
    /\ ranRest = {}

(* ------------------------------------------- classifier and taxonomy steps *)

Init == ClassifierIdle /\ TryIdle /\ LogIdle

\* The transport layer hands a status code to from_libusb.
Classify(code, backtrace) ==
    /\ raw' = Some(code)
    /\ usbErr' = Some(from_libusb(code, backtrace))
    /\ appErr' = None
    /\ shown' = <<>>
    /\ cause' = None
    /\ UNCHANGED <<tryVars, logVars>>

\* From<ErrorKind> for Error: kind.into()
KindIntoError(kind, backtrace) ==
    /\ raw' = None
    /\ usbErr' = Some(error(kind, backtrace))
    /\ appErr' = None
    /\ shown' = <<>>
    /\ cause' = None
    /\ UNCHANGED <<tryVars, logVars>>

\* format!("{}", usbErr)
Fmt ==
    /\ usbErr # None
    /\ Len(shown) < MaxFmtCalls
    /\ shown' = Append(shown, Display(usbErr.some))
    /\ UNCHANGED <<raw, usbErr, appErr, cause, tryVars, logVars>>

\* PermissionsError { source, operation, context } and
\* DeviceDisconnectDuringOperationError { .. }: the rusb::Error moves in.
WrapTransportError(case, operation, context) ==
    /\ usbErr # None
    /\ appErr' = Some([case |-> case, source |-> usbErr.some,
                       operation |-> operation, context |-> context])
    /\ usbErr' = None
    /\ raw' = None
    /\ shown' = <<>>
    /\ cause' = None
    /\ UNCHANGED <<tryVars, logVars>>

\* DeviceReconfigureError { source } and DeviceRebootError { source }:
\* Some(the rusb::Error in hand) or None.
WrapOptionalTransportError(case) ==
    /\ appErr' = Some([case |-> case,
                       source |-> IF usbErr = None THEN None ELSE Some(usbErr.some)])
    /\ usbErr' = None
    /\ raw' = None
    /\ shown' = <<>>
    /\ cause' = None
    /\ UNCHANGED <<tryVars, logVars>>

\* DeviceSeemsInvalidError { source, invalid_thing }
ConstructSeemsInvalid(src, invalid_thing) ==
    /\ appErr' = Some([case |-> "DeviceSeemsInvalidError", source |-> src,
                       invalid_thing |-> invalid_thing])
    /\ usbErr' = None
    /\ raw' = None
    /\ shown' = <<>>
    /\ cause' = None
    /\ UNCHANGED <<tryVars, logVars>>

\* FirmwareFileIOError { source, filename }
ConstructFirmwareFileIO(src, filename) ==
    /\ appErr' = Some([case |-> "FirmwareFileIOError", source |-> src,
                       filename |-> filename])
    /\ usbErr' = None
    /\ raw' = None
    /\ shown' = <<>>
    /\ cause' = None
    /\ UNCHANGED <<tryVars, logVars>>

\* TooManyDevicesError, DeviceNotFoundError
ConstructUnit(case) ==
    /\ appErr' = Some([case |-> case])
    /\ usbErr' = None
    /\ raw' = None
    /\ shown' = <<>>
    /\ cause' = None
    /\ UNCHANGED <<tryVars, logVars>>

\* usbErr.into(): the rusb::Error moves into LibusbError.
IntoBmputilError ==
    /\ usbErr # None
    /\ appErr' = Some(from_rusb(usbErr.some))
    /\ usbErr' = None
    /\ raw' = None
    /\ shown' = <<>>
    /\ cause' = None
    /\ UNCHANGED <<tryVars, logVars>>

\* dfu_error.into()
DfuIntoBmputilError(e) ==
    /\ appErr' = Some(from_dfu(e))
    /\ usbErr' = None
    /\ raw' = None
    /\ shown' = <<>>
    /\ cause' = None
    /\ UNCHANGED <<tryVars, logVars>>

\* format!("{}", appErr)
FmtApp ==
    /\ appErr # None
    /\ Len(shown) < MaxFmtCalls
    /\ shown' = Append(shown, AppDisplay(appErr.some))
    /\ UNCHANGED <<raw, usbErr, appErr, cause, tryVars, logVars>>

\* appErr.source()
CallSource ==
    /\ appErr # None
    /\ cause' = Some(source(appErr.some))
    /\ UNCHANGED <<raw, usbErr, appErr, shown, tryVars, logVars>>

Next ==
    \/ \E code \in RawCodes, backtrace \in Backtraces : Classify(code, backtrace)
    \/ \E kind \in ErrorKind, backtrace \in Backtraces : KindIntoError(kind, backtrace)
    \/ Fmt
    \/ \E case \in {"PermissionsError", "DeviceDisconnectDuringOperationError"},
          operation \in Operations, context \in Contexts :
            WrapTransportError(case, operation, context)
    \/ \E case \in {"DeviceReconfigureError", "DeviceRebootError"} :
            WrapOptionalTransportError(case)
    \/ \E src \in {None} \cup {Some(a) : a \in AnyhowErrors}, thing \in InvalidThings :
            ConstructSeemsInvalid(src, thing)
    \/ \E src \in IoErrors, filename \in Filenames : ConstructFirmwareFileIO(src, filename)
    \/ \E case \in {"TooManyDevicesError", "DeviceNotFoundError"} : ConstructUnit(case)
    \/ IntoBmputilError
    \/ \E e \in DfuErrors : DfuIntoBmputilError(e)
    \/ FmtApp
    \/ CallSource

Spec == Init /\ [][Next]_vars

(* ------------------------------------------------- classifier properties *)

\* The kind documented for each libusb constant.
DocumentedKind ==
    (LIBUSB_ERROR_IO :> "Io") @@ (LIBUSB_ERROR_INVALID_PARAM :> "InvalidParam")
    @@ (LIBUSB_ERROR_ACCESS :> "Access") @@ (LIBUSB_ERROR_NO_DEVICE :> "NoDevice")
    @@ (LIBUSB_ERROR_NOT_FOUND :> "NotFound") @@ (LIBUSB_ERROR_BUSY :> "Busy")
    @@ (LIBUSB_ERROR_TIMEOUT :> "Timeout") @@ (LIBUSB_ERROR_OVERFLOW :> "Overflow")
    @@ (LIBUSB_ERROR_PIPE :> "Pipe") @@ (LIBUSB_ERROR_INTERRUPTED :> "Interrupted")
    @@ (LIBUSB_ERROR_NO_MEM :> "NoMem") @@ (LIBUSB_ERROR_NOT_SUPPORTED :> "NotSupported")
    @@ (LIBUSB_ERROR_OTHER :> "Other")

\* C1: from_libusb returns an Error for every i32 it is given (the ends of i32,
\* 0 and positive values included); its kind is the documented one for each
\* libusb constant and Other for every other code.
C1_ClassifyTotalAndMapped ==
    raw # None =>
        /\ usbErr # None
        /\ usbErr.some \in Error
        /\ usbErr.some.kind =
              IF raw.some \in DOMAIN DocumentedKind
              THEN DocumentedKind[raw.some]
              ELSE "Other"

C1_Witness ==
    /\ raw = Some(I32_MIN)
    /\ usbErr # None
    /\ usbErr.some.kind = "Other"

\* C2 as stated: from_libusb(-5) has kind Access and displays
\* "Access denied (insufficient permissions)".
C2_MinusFiveIsAccess ==
    raw = Some(-5) =>
        /\ usbErr.some.kind = "Access"
        /\ \A i \in DOMAIN shown : shown[i] = "Access denied (insufficient permissions)"

\* C2 amended: the access-denied constant is -3: from_libusb(-3) has kind Access
\* and displays "Access denied (insufficient permissions)"; from_libusb(-5) has
\* kind NotFound and displays "Entity not found".
C2_MinusThreeIsAccess ==
    /\ raw = Some(-3) =>
        /\ usbErr.some.kind = "Access"
        /\ \A i \in DOMAIN shown : shown[i] = "Access denied (insufficient permissions)"
    /\ raw = Some(-5) =>
        /\ usbErr.some.kind = "NotFound"
        /\ \A i \in DOMAIN shown : shown[i] = "Entity not found"

C2_Witness ==
    /\ raw = Some(-3)
    /\ shown = <<"Access denied (insufficient permissions)">>

\* C7: the display text of a rusb::Error is decided by its kind alone: every
\* fmt call on it writes the same non-empty text, the text is the one any error
\* of that kind with any other backtrace displays, no backtrace occurs in it,
\* and the error of the unknown code -9999 displays "Other error".
C7_DisplayByKindAlone ==
    usbErr # None =>
        \A i \in DOMAIN shown :
            /\ Len(shown[i]) > 0
            /\ \A j \in DOMAIN shown : shown[j] = shown[i]
            /\ \A b \in Backtraces :
                /\ Display(new(usbErr.some.kind, b)) = shown[i]
                /\ ~Contains(shown[i], b)
            /\ raw = Some(-9999) => shown[i] = "Other error"

C7_Witness ==
    /\ raw = Some(-9999)
    /\ shown = <<"Other error", "Other error">>

\* C9: no status code classifies as BadDescriptor: the kinds from_libusb yields
\* are the 13 others, and an Error of kind BadDescriptor comes from
\* ErrorKind -> Error (or Error::new) alone.
C9_ClassifyNeverBadDescriptor ==
    /\ raw # None => usbErr.some.kind # "BadDescriptor"
    /\ {from_libusb(c, b).kind : c \in RawCodes, b \in Backtraces}
         = ErrorKind \ {"BadDescriptor"}

C9_Witness ==
    /\ raw = None
    /\ usbErr # None
    /\ usbErr.some.kind = "BadDescriptor"
    /\ shown = <<"Malformed descriptor">>

(* --------------------------------------------------- taxonomy properties *)

\* C3: source() of a BmputilError is the wrapped source where the case carries
\* one that is present, and that cause displays as the source does; it is None
\* for the optional-source cases holding None and for TooManyDevicesError and
\* DeviceNotFoundError.
C3_SourceIsWrappedSource ==
    (appErr # None /\ cause # None) =>
        LET e == appErr.some
            c == cause.some
        IN  /\ e.case \in {"FirmwareFileIOError", "PermissionsError",
                           "DeviceDisconnectDuringOperationError"} =>
                  /\ c = Some(e.source)
                  /\ SourceDisplay(c.some) =
                        IF e.case = "FirmwareFileIOError"
                        THEN e.source.text
                        ELSE KindText(e.source.kind)
            /\ e.case \in {"LibusbError", "DfuLibusbError"} =>
                  /\ c = Some(e.v0)
                  /\ SourceDisplay(c.some) =
                        IF e.case = "DfuLibusbError"
                        THEN e.v0.text
                        ELSE KindText(e.v0.kind)
            /\ e.case \in {"DeviceReconfigureError", "DeviceRebootError",
                           "DeviceSeemsInvalidError"} =>
                  /\ e.source = None => c = None
                  /\ e.source # None =>
                        /\ c = Some(e.source.some)
                        /\ SourceDisplay(c.some) =
                              IF e.case = "DeviceSeemsInvalidError"
                              THEN e.source.some.text
                              ELSE KindText(e.source.some.kind)
            /\ e.case \in {"TooManyDevicesError", "DeviceNotFoundError"} => c = None

C3_Witness ==
    /\ appErr # None
    /\ appErr.some.case = "LibusbError"
    /\ appErr.some.v0.kind = "NoDevice"
    /\ cause = Some(Some(appErr.some.v0))

\* C4: converting a rusb::Error into a BmputilError gives LibusbError holding an
\* error of the same kind and the same backtrace, whatever they are.
C4_IntoIsLibusbErrorOfSameValue ==
    [][IntoBmputilError =>
          appErr' = Some([case |-> "LibusbError",
                          v0 |-> [kind |-> usbErr.some.kind,
                                  backtrace |-> usbErr.some.backtrace]])]_vars

C4_Witness ==
    /\ appErr # None
    /\ appErr.some.case = "LibusbError"
    /\ appErr.some.v0 = [kind |-> "Access", backtrace |-> "0: rusb::error::from_libusb"]

\* The values that differ from e in the wrapped source at most.
SameButSource(e) ==
    CASE e.case \in {"PermissionsError", "DeviceDisconnectDuringOperationError"} ->
            {[e EXCEPT !.source = s] : s \in Error}
      [] e.case \in {"DeviceReconfigureError", "DeviceRebootError"} ->
            {[e EXCEPT !.source = s] : s \in {None} \cup {Some(x) : x \in Error}}
      [] e.case = "DeviceSeemsInvalidError" ->
            {[e EXCEPT !.source = s] : s \in {None} \cup {Some(x) : x \in AnyhowErrors}}
      [] e.case = "FirmwareFileIOError" -> {[e EXCEPT !.source = s] : s \in IoErrors}
      [] e.case = "LibusbError" -> {[e EXCEPT !.v0 = s] : s \in Error}
      [] e.case = "DfuLibusbError" -> {[e EXCEPT !.v0 = s] : s \in DfuErrors}
      [] OTHER -> {e}

\* C8: the display text of a BmputilError is decided by its case and its string
\* fields: PermissionsError displays "Access denied when attempting to
\* <operation> to <context>" whatever its source, LibusbError and DfuLibusbError
\* each display one fixed "please report this" message whatever they wrap.
C8_AppDisplayIgnoresSource ==
    appErr # None =>
        LET e == appErr.some
        IN  \A i \in DOMAIN shown :
                /\ \A e2 \in SameButSource(e) : AppDisplay(e2) = shown[i]
                /\ e.case = "PermissionsError" =>
                      shown[i] = "Access denied when attempting to " \o e.operation
                                    \o " to " \o e.context
                /\ ( /\ e.case = "PermissionsError"
                     /\ e.operation = "send a control transfer"
                     /\ e.context = "read firmware version" ) =>
                      shown[i] = "Access denied when attempting to send a control transfer to read firmware version"
                /\ e.case = "LibusbError" =>
                      shown[i] = "Other/unhandled libusb error (please report this so we can add better handling!)"
                /\ e.case = "DfuLibusbError" =>
                      shown[i] = "Other/unhandled dfu_libusb error (please report this so we can add better error handling!"
                /\ e.case \in {"LibusbError", "DfuLibusbError"} =>
                      Contains(shown[i], "please report this")

C8_Witness ==
    /\ appErr # None
    /\ appErr.some.case = "PermissionsError"
    /\ appErr.some.source.kind = "Access"
    /\ shown = <<"Access denied when attempting to send a control transfer to read firmware version">>

(* ------------------------------------------------------------ try_unsafe! *)

\* A function whose body is ncalls native calls, each in try_unsafe!, then Ok(()).
InitTry ==
    /\ ClassifierIdle
    /\ LogIdle
    /\ ncalls \in 1 .. MaxCalls
    /\ calls = <<>>
    /\ result = None

\* A try_unsafe! that takes only a negative status for a failure.
MutTryUnsafeNegativeOnly(status, backtrace) ==
    /\ result = None
    /\ Len(calls) < ncalls
    /\ calls' = Append(calls, status)
    /\ result' = IF status >= 0 THEN result ELSE Some(Err(from_libusb(status, backtrace)))
    /\ UNCHANGED <<ncalls, classifierVars, logVars>>

\* try_unsafe!(native call): the call runs and returns status; 0 goes on to the
\* next statement, anything else returns Err(from_libusb(status)).
TryUnsafe(status, backtrace) ==
    /\ result = None
    /\ Len(calls) < ncalls
    /\ calls' = Append(calls, status)
    /\ result' = IF status = 0 THEN result ELSE Some(Err(from_libusb(status, backtrace)))
    /\ UNCHANGED <<ncalls, classifierVars, logVars>>

\* The end of the body, past the last try_unsafe!.
ReturnOk ==
    /\ result = None
    /\ Len(calls) = ncalls
    /\ result' = Some(Ok)
    /\ UNCHANGED <<ncalls, calls, classifierVars, logVars>>

NextTry ==
    \/ \E status \in RawCodes, backtrace \in Backtraces : TryUnsafe(status, backtrace)
    \/ ReturnOk

SpecTry == InitTry /\ [][NextTry]_vars

\* C10: in a body of try_unsafe! calls every call before the last one run
\* returned 0; the function has returned Err exactly when the last call run
\* returned a non-zero status, negative or positive, and the error is
\* from_libusb of that status, of kind Other for a positive one; no call runs
\* after that, and Ok is returned only after every call returned 0.
C10_TryUnsafeStopsAtFirstNonZero ==
    LET n == Len(calls)
    IN  /\ \A i \in 1 .. n - 1 : calls[i] = 0
        /\ IsErr(result) <=> (n > 0 /\ calls[n] # 0)
        /\ IsErr(result) =>
              /\ result.some.err \in Error
              /\ result.some.err.kind =
                    IF calls[n] \in DOMAIN DocumentedKind
                    THEN DocumentedKind[calls[n]]
                    ELSE "Other"
              /\ calls[n] > 0 => result.some.err.kind = "Other"
        /\ result = Some(Ok) => (n = ncalls /\ \A i \in 1 .. n : calls[i] = 0)

C10_Witness ==
    /\ ncalls = 3
    /\ calls = <<0, 7>>
    /\ IsErr(result)
    /\ result.some.err.kind = "Other"

(* --------------------------------------------------------- log_and_return! *)

\* How a frame hands on an error: `?` / `return Err(e)`, or log_and_return!(e).
Modes == {"forward", "log_and_return"}

\* The errors the innermost frame may come upon.
Failures ==
    {[case |-> "DeviceNotFoundError"],
     [case |-> "TooManyDevicesError"],
     [case |-> "PermissionsError", source |-> new("Access", "1: bmputil::usb::open"),
      operation |-> "send a control transfer", context |-> "read firmware version"],
     [case |-> "DeviceReconfigureError", source |-> Some(new("NoDevice", "1: bmputil::usb::open"))],
     from_rusb(new("Pipe", "0: rusb::error::from_libusb"))}

\* A chain of 1..MaxFrames frames, the innermost about to run; it comes upon
\* `failure`, or upon nothing and succeeds.
InitLog ==
    /\ ClassifierIdle
    /\ TryIdle
    /\ frames \in UNION {[1 .. n -> Modes] : n \in 1 .. MaxFrames}
    /\ failure \in {None} \cup {Some(f) : f \in Failures}
    /\ level = Len(frames)
    /\ pc = "body"
    /\ err = None
    /\ evals = [i \in 1 .. Len(frames) |-> 0]
    /\ log = <<>>
    /\ ret = None
    /\ ranRest = {}

\* The error in front of the running frame: its own finding in the innermost
\* frame, the Err its callee returned in the others.
CurrentError ==
    IF level = Len(frames) THEN failure
    ELSE IF IsErr(ret) THEN Some(ret.some.err)
    ELSE None

\* No error: the frame runs the rest of its body and returns Ok.
RunRest ==
    /\ level > 0
    /\ pc = "body"
    /\ CurrentError = None
    /\ ranRest' = ranRest \cup {level}
    /\ ret' = Some(Ok)
    /\ level' = level - 1
    /\ UNCHANGED <<frames, failure, pc, err, evals, log, classifierVars, tryVars>>

\* The frame hands the error to its caller without logging.
Forward ==
    /\ level > 0
    /\ pc = "body"
    /\ frames[level] = "forward"
    /\ CurrentError # None
    /\ ret' = Some(Err(CurrentError.some))
    /\ level' = level - 1
    /\ UNCHANGED <<frames, failure, pc, err, evals, log, ranRest, classifierVars, tryVars>>

\* log_and_return!: let err = $err;
LR_Let ==
    /\ level > 0
    /\ pc = "body"
    /\ frames[level] = "log_and_return"
    /\ CurrentError # None
    /\ err' = CurrentError
    /\ evals' = [evals EXCEPT ![level] = @ + 1]
    /\ pc' = "bound"
    /\ UNCHANGED <<frames, failure, level, log, ret, ranRest, classifierVars, tryVars>>

\* A log line that spells out the cause after the message.
MutLogWithCause ==
    /\ pc = "bound"
    /\ log' = Append(log, [severity |-> "Error", site |-> level,
                           text |-> MutAppDisplayWithSource(err.some)])
    /\ pc' = "logged"
    /\ UNCHANGED <<frames, failure, level, err, evals, ret, ranRest, classifierVars, tryVars>>

\* A log call that is made only where the error was found, not where a callee's
\* error is handed on.
MutLogAtOriginOnly ==
    /\ pc = "bound"
    /\ log' = IF level = Len(frames)
              THEN Append(log, [severity |-> "Error", site |-> level,
                                text |-> AppDisplay(err.some)])
              ELSE log
    /\ pc' = "logged"
    /\ UNCHANGED <<frames, failure, level, err, evals, ret, ranRest, classifierVars, tryVars>>

\* log_and_return!: log::error!("{}", err); the record carries its call site.
LR_Log ==
    /\ pc = "bound"
    /\ log' = Append(log, [severity |-> "Error", site |-> level,
                           text |-> AppDisplay(err.some)])
    /\ pc' = "logged"
    /\ UNCHANGED <<frames, failure, level, err, evals, ret, ranRest, classifierVars, tryVars>>

\* log_and_return!: return Err(err);
LR_Return ==
    /\ pc = "logged"
    /\ ret' = Some(Err(err.some))
    /\ err' = None
    /\ level' = level - 1
    /\ pc' = "body"
    /\ UNCHANGED <<frames, failure, evals, log, ranRest, classifierVars, tryVars>>

NextLog ==
    \/ RunRest
    \/ Forward
    \/ LR_Let
    \/ LR_Log
    \/ LR_Return

SpecLog == InitLog /\ [][NextLog]_vars

\* The log records made at frame i.
RecordsOf(i) == {k \in DOMAIN log : log[k].site = i}

\* C5: a frame that invokes log_and_return! on an error evaluates the
\* expression once, emits one Error record whose text is the display text of
\* the error (without its cause), and then returns Err of that same error: the
\* record is there before the frame returns, and the rest of the body never
\* runs. For DeviceNotFoundError the text is "No connected Blackmagic Probe
\* device was found! Check connection?".
C5_LogAndReturnLogsOnceThenReturns ==
    \A i \in 1 .. Len(frames) :
        (frames[i] = "log_and_return" /\ failure # None) =>
            LET e == failure.some
            IN  /\ i < level => (RecordsOf(i) = {} /\ evals[i] = 0)
                /\ (i = level /\ pc = "body") => (RecordsOf(i) = {} /\ evals[i] = 0)
                /\ (i = level /\ pc = "bound") => (RecordsOf(i) = {} /\ evals[i] = 1)
                /\ (i = level /\ pc = "logged") => (Cardinality(RecordsOf(i)) = 1 /\ i \notin ranRest)
                /\ i > level =>
                      /\ evals[i] = 1
                      /\ Cardinality(RecordsOf(i)) = 1
                      /\ i \notin ranRest
                      /\ i = level + 1 => ret = Some(Err(e))
                /\ \A k \in RecordsOf(i) :
                      /\ log[k].severity = "Error"
                      /\ log[k].text = AppDisplay(e)
                      /\ source(e) # None =>
                            ~Contains(log[k].text, SourceDisplay(source(e).some))
                      /\ e.case = "DeviceNotFoundError" =>
                            log[k].text = "No connected Blackmagic Probe device was found! Check connection?"

C5_Witness ==
    /\ frames = <<"log_and_return">>
    /\ level = 0
    /\ failure = Some([case |-> "DeviceNotFoundError"])
    /\ log = <<[severity |-> "Error", site |-> 1,
                text |-> "No connected Blackmagic Probe device was found! Check connection?"]>>
    /\ ret = Some(Err([case |-> "DeviceNotFoundError"]))

\* C6 as stated: an error that has left the outermost frame has been logged
\* exactly once, whatever the frames it went through did.
C6_SurfacedErrorLoggedExactlyOnce ==
    (level = 0 /\ IsErr(ret)) => Len(log) = 1

\* C6 amended: an error that has left the outermost frame has been logged once
\* by each frame that handed it on with log_and_return!, and by no other frame.
C6_LoggedOncePerLogAndReturnFrame ==
    (level = 0 /\ IsErr(ret)) =>
        /\ Len(log) = Cardinality({i \in 1 .. Len(frames) : frames[i] = "log_and_return"})
        /\ \A i \in 1 .. Len(frames) :
              Cardinality(RecordsOf(i)) = IF frames[i] = "log_and_return" THEN 1 ELSE 0

C6_Witness ==
    /\ level = 0
    /\ IsErr(ret)
    /\ frames = <<"log_and_return", "forward", "log_and_return">>
    /\ Len(log) = 2

====
